---- MODULE Spec2Model ----
(***************************************************************************)
(* A model of takram::graphics::Path2<T> (src/src/takram/graphics/path2.h): *)
(* the command vector commands_, the member direction_, the builder        *)
(* operations, bounds(), direction(), reverse() and reversed().            *)
(*                                                                         *)
(* A point is a pair <<x, y>> of integers.  A command is a record with the *)
(* fields kind, control1, control2 and point (control() is control1()).    *)
(***************************************************************************)
EXTENDS Integers, Sequences, FiniteSets

VARIABLES
  commands,    \* commands_ (path2.h:136)
  direction_,  \* direction_ (path2.h:137)
  op,          \* the member function called last
  ret,         \* what the last query returned; "none" after a mutation
  fault,       \* "none", "assert" (assert(false) aborted), "crash"
  prior        \* history: what direction() returned when it was the call
               \* made just before the last mutating call, else "none"

vars == <<commands, direction_, op, ret, fault, prior>>

\* The longest command vector explored.
MaxLen == 4

\* std::numeric_limits<int>::max() and lowest(), T = int (Path2i).
TMax == 2147483647
TLowest == -TMax - 1

-----------------------------------------------------------------------------
(* Command<T, 2> and Vector2<T>: takram/graphics/command.h and              *)
(* takram/math/vector.h are not part of the sources at hand; these follow   *)
(* the interface the specification gives (sections 3 and 6).                *)

Zero == <<0, 0>>

\* Command(kind): no point is given, each is value-initialised.
Command1(kind) ==
  [kind |-> kind, control1 |-> Zero, control2 |-> Zero, point |-> Zero]

\* Command(kind, point)
Command2(kind, point) ==
  [kind |-> kind, control1 |-> Zero, control2 |-> Zero, point |-> point]

\* Command(kind, control, point)
Command3(kind, control, point) ==
  [kind |-> kind, control1 |-> control, control2 |-> Zero, point |-> point]

\* Command(kind, control1, control2, point)
Command4(kind, control1, control2, point) ==
  [kind |-> kind, control1 |-> control1, control2 |-> control2,
   point |-> point]

\* Vector2<T>::cross
cross(a, b) == a[1] * b[2] - a[2] * b[1]

\* Rect<T>(min, max)
Rect(min, max) == [min |-> min, max |-> max]

-----------------------------------------------------------------------------
(* Builder operations, as functions of the command vector.                  *)

back(cmds) == cmds[Len(cmds)]

front(cmds) == cmds[1]

\* A close() that appends whether or not the path already ends with CLOSE.
closeAlways(cmds) == Append(cmds, Command1("CLOSE"))

\* close(), on a non-empty vector.
close(cmds) ==
  IF back(cmds).kind # "CLOSE" THEN Append(cmds, Command1("CLOSE")) ELSE cmds

\* A moveTo that appends the MOVE without clearing the vector.
moveToAppend(cmds, point) == Append(cmds, Command2("MOVE", point))

\* moveTo(point): clear, then emplace the MOVE.
moveTo(cmds, point) == <<Command2("MOVE", point)>>

appendAndClose(cmds, command) ==
  LET added == Append(cmds, command)
  IN  IF command.point = front(added).point THEN close(added) ELSE added

lineTo(cmds, point) ==
  IF cmds = <<>> THEN moveTo(cmds, point)
  ELSE appendAndClose(cmds, Command2("LINE", point))

quadraticTo(cmds, control, point) ==
  IF cmds = <<>> THEN moveTo(cmds, point)
  ELSE appendAndClose(cmds, Command3("QUADRATIC", control, point))

cubicTo(cmds, control1, control2, point) ==
  IF cmds = <<>> THEN moveTo(cmds, point)
  ELSE appendAndClose(cmds, Command4("CUBIC", control1, control2, point))

\* reset()
reset(cmds) == <<>>

\* set(commands)
set(cmds, given) == given

-----------------------------------------------------------------------------
(* bounds()                                                                 *)

\* The four accumulators, started at their sentinels.
sentinels ==
  [min_x |-> TMax, min_y |-> TMax, max_x |-> TLowest, max_y |-> TLowest]

\* The four comparisons made for one point.
fold(acc, p) ==
  [min_x |-> IF p[1] < acc.min_x THEN p[1] ELSE acc.min_x,
   min_y |-> IF p[2] < acc.min_y THEN p[2] ELSE acc.min_y,
   max_x |-> IF p[1] > acc.max_x THEN p[1] ELSE acc.max_x,
   max_y |-> IF p[2] > acc.max_y THEN p[2] ELSE acc.max_y]

\* The switch with its fall-through: CUBIC folds control2, control, point;
\* QUADRATIC control, point; MOVE and LINE point; CLOSE nothing.
foldCommand(acc, c) ==
  CASE c.kind = "CUBIC" ->
         fold(fold(fold(acc, c.control2), c.control1), c.point)
    [] c.kind = "QUADRATIC" -> fold(fold(acc, c.control1), c.point)
    [] c.kind \in {"MOVE", "LINE"} -> fold(acc, c.point)
    [] OTHER -> acc

RECURSIVE foldCommands(_, _)
foldCommands(acc, cmds) ==
  IF cmds = <<>> THEN acc
  ELSE foldCommands(foldCommand(acc, Head(cmds)), Tail(cmds))

\* An accumulator still at its sentinel becomes T().
normalized(acc) ==
  [min_x |-> IF acc.min_x = TMax THEN 0 ELSE acc.min_x,
   min_y |-> IF acc.min_y = TMax THEN 0 ELSE acc.min_y,
   max_x |-> IF acc.max_x = TLowest THEN 0 ELSE acc.max_x,
   max_y |-> IF acc.max_y = TLowest THEN 0 ELSE acc.max_y]

bounds(cmds) ==
  LET acc == normalized(foldCommands(sentinels, cmds))
  IN  Rect(<<acc.min_x, acc.min_y>>, <<acc.max_x, acc.max_y>>)

-----------------------------------------------------------------------------
(* direction()                                                              *)

\* The loop over the pairs (first, second) = (cmds[i - 1], cmds[i]).
RECURSIVE directionSum(_, _)
directionSum(cmds, i) ==
  IF i > Len(cmds) THEN 0
  ELSE LET first == cmds[i - 1]
           second == cmds[i]
           term ==
             CASE second.kind \in {"LINE", "QUADRATIC", "CUBIC"} ->
                    cross(first.point, second.point)
               [] second.kind = "CLOSE" ->
                    cross(second.point, front(cmds).point)
               [] OTHER -> 0
       IN  term + directionSum(cmds, i + 1)

\* Whether the loop reaches assert(false): a MOVE after the first command.
directionAsserts(cmds) ==
  /\ Len(cmds) >= 3
  /\ \E i \in 2..Len(cmds) : cmds[i].kind = "MOVE"

\* A direction() that returns direction_ once it is set, and sets it.
directionCached(cmds, cached) ==
  IF cached # "UNDEFINED"
  THEN [result |-> cached, asserted |-> FALSE, cached |-> cached]
  ELSE LET r == IF Len(cmds) < 3 THEN "UNDEFINED"
                ELSE IF directionSum(cmds, 2) < 0 THEN "COUNTER_CLOCKWISE"
                ELSE "CLOCKWISE"
       IN  [result |-> r, asserted |-> directionAsserts(cmds), cached |-> r]

\* direction() on a path with the commands cmds and direction_ = cached:
\* what it returns, whether it reaches assert(false), and direction_ after.
direction(cmds, cached) ==
  [result |-> IF Len(cmds) < 3 THEN "UNDEFINED"
              ELSE IF directionSum(cmds, 2) < 0 THEN "COUNTER_CLOCKWISE"
              ELSE "CLOCKWISE",
   asserted |-> directionAsserts(cmds),
   cached |-> cached]

-----------------------------------------------------------------------------
(* reverse() and reversed()                                                 *)

\* std::reverse
reverseSeq(s) ==
  IF s = <<>> THEN <<>> ELSE [i \in 1..Len(s) |-> s[Len(s) + 1 - i]]

\* The points one command gives to the list, in order.
pointsOf(c) ==
  CASE c.kind \in {"MOVE", "LINE"} -> <<c.point>>
    [] c.kind = "QUADRATIC" -> <<c.control1, c.point>>
    [] c.kind = "CUBIC" -> <<c.control1, c.control2, c.point>>
    [] OTHER -> <<>>

\* The first loop: every point, in command order.
RECURSIVE collectPoints(_)
collectPoints(cmds) ==
  IF cmds = <<>> THEN <<>>
  ELSE pointsOf(Head(cmds)) \o collectPoints(Tail(cmds))

\* The std::reverse of the commands after the first, a last CLOSE left out.
reorderCommands(cmds) ==
  IF back(cmds).kind = "CLOSE"
  THEN <<front(cmds)>> \o reverseSeq(SubSeq(cmds, 2, Len(cmds) - 1))
         \o <<back(cmds)>>
  ELSE <<front(cmds)>> \o reverseSeq(SubSeq(cmds, 2, Len(cmds)))

\* One command with its points taken from the head of pts.
assignCommand(c, pts) ==
  CASE c.kind \in {"MOVE", "LINE"} -> [c EXCEPT !.point = pts[1]]
    [] c.kind = "QUADRATIC" ->
         [c EXCEPT !.control1 = pts[1], !.point = pts[2]]
    [] c.kind = "CUBIC" ->
         [c EXCEPT !.control1 = pts[1], !.control2 = pts[2], !.point = pts[3]]
    [] OTHER -> c

\* The second loop: each command takes its points from the list in turn.
RECURSIVE assignPoints(_, _)
assignPoints(cmds, pts) ==
  IF cmds = <<>> THEN <<>>
  ELSE LET c == Head(cmds)
           n == Len(pointsOf(c))
       IN  <<assignCommand(c, pts)>>
             \o assignPoints(Tail(cmds), SubSeq(pts, n + 1, Len(pts)))

\* The points the second loop leaves in the list: assert(itr == end) wants 0.
reverseLeftover(cmds) ==
  Len(collectPoints(cmds)) - Len(collectPoints(reorderCommands(cmds)))

\* reverse() is defined on a non-empty vector other than a lone CLOSE: back()
\* of an empty vector, and std::reverse of the range [begin + 1, begin), are
\* undefined.
reverseDefined(cmds) ==
  /\ cmds # <<>>
  /\ ~(Len(cmds) = 1 /\ back(cmds).kind = "CLOSE")

\* A reverse() that reorders the commands and leaves the point list as it was.
reverseKeepingPoints(cmds) ==
  assignPoints(reorderCommands(cmds), collectPoints(cmds))

\* A reverse() that reverses the whole command vector after the first,
\* each command keeping the points it had.
reverseNaive(cmds) ==
  <<front(cmds)>> \o reverseSeq(SubSeq(cmds, 2, Len(cmds)))

\* reverse()
reverse(cmds) ==
  assignPoints(reorderCommands(cmds), reverseSeq(collectPoints(cmds)))

\* reversed(): reverse() of a copy.
reversed(cmds) == reverse(cmds)

-----------------------------------------------------------------------------
(* The calls a program makes on one Path2<int>.                             *)

\* The end points and control points the calls are made with.
Points == {<<0, 0>>, <<1, 0>>, <<0, 1>>}
QuadControls == {<<2, 1>>}
CubicControls == {<< <<-1, 0>>, <<0, 2>> >>}

\* Points at the ends of the range of T, for bounds().
ExtremePoints == {<<TMax, 0>>, <<1, TLowest>>, <<TLowest, TMax>>, <<1, 1>>}
ExtremeQuadControls == {<<TMax, TMax>>}
ExtremeCubicControls == {<< <<TLowest, 0>>, <<0, 2>> >>}

\* The vectors set() is called with: a path as the builder makes it, one with
\* a MOVE in the middle, one that starts with a LINE, and the empty one.
SetInputs ==
  { <<Command2("MOVE", <<0, 0>>), Command2("LINE", <<1, 0>>),
      Command2("LINE", <<1, 1>>), Command1("CLOSE")>>,
    <<Command2("MOVE", <<0, 0>>), Command2("LINE", <<0, 1>>),
      Command2("MOVE", <<1, 1>>)>>,
    <<Command2("LINE", <<1, 1>>), Command2("LINE", <<1, 0>>),
      Command2("LINE", <<0, 0>>)>>,
    <<>> }

Init ==
  /\ commands = <<>>
  /\ direction_ = "UNDEFINED"
  /\ op = "Path"
  /\ ret = "none"
  /\ fault = "none"
  /\ prior = "none"

\* A mutating call o that leaves the commands cmds.
mutated(o, cmds) ==
  /\ Len(cmds) <= MaxLen
  /\ commands' = cmds
  /\ op' = o
  /\ ret' = "none"
  /\ prior' = IF op = "direction" THEN ret ELSE "none"
  /\ UNCHANGED <<direction_, fault>>

\* A const call o that returns r.
returned(o, r) ==
  /\ op' = o
  /\ ret' = r
  /\ UNCHANGED <<commands, direction_, fault, prior>>

MoveTo(point) ==
  /\ fault = "none"
  /\ mutated("moveTo", moveTo(commands, point))

LineTo(point) ==
  /\ fault = "none"
  /\ mutated("lineTo", lineTo(commands, point))

QuadraticTo(control, point) ==
  /\ fault = "none"
  /\ mutated("quadraticTo", quadraticTo(commands, control, point))

CubicTo(control1, control2, point) ==
  /\ fault = "none"
  /\ mutated("cubicTo", cubicTo(commands, control1, control2, point))

\* close() on a non-empty path.
Close ==
  /\ fault = "none"
  /\ commands # <<>>
  /\ mutated("close", close(commands))

\* close() on an empty path: commands_.back() is undefined there.  The call
\* may end the program, may read a kind other than CLOSE and append, or may
\* read CLOSE and return.
CloseEmpty ==
  /\ commands = <<>>
  /\ fault = "none"
  /\ op' = "close"
  /\ ret' = "none"
  /\ prior' = IF op = "direction" THEN ret ELSE "none"
  /\ direction_' = direction_
  /\ \/ fault' = "crash" /\ commands' = commands
     \/ fault' = fault /\ commands' = <<Command1("CLOSE")>>
     \/ fault' = fault /\ commands' = commands

Reset ==
  /\ fault = "none"
  /\ mutated("reset", reset(commands))

Set(given) ==
  /\ fault = "none"
  /\ mutated("set", set(commands, given))

Reverse ==
  /\ fault = "none"
  /\ reverseDefined(commands)
  /\ mutated("reverse", reverse(commands))

Reversed ==
  /\ fault = "none"
  /\ reverseDefined(commands)
  /\ returned("reversed", reversed(commands))

Bounds ==
  /\ fault = "none"
  /\ returned("bounds", bounds(commands))

\* direction() returning: always in a build with NDEBUG, and in a build with
\* assertions when assert(false) is not reached.
Direction ==
  LET r == direction(commands, direction_)
  IN  /\ fault = "none"
      /\ op' = "direction"
      /\ ret' = r.result
      /\ direction_' = r.cached
      /\ UNCHANGED <<commands, fault, prior>>

\* direction() reaching assert(false) in a build with assertions.
DirectionAbort ==
  LET r == direction(commands, direction_)
  IN  /\ fault = "none"
      /\ r.asserted
      /\ op' = "direction"
      /\ ret' = "none"
      /\ fault' = "assert"
      /\ UNCHANGED <<commands, direction_, prior>>

Builders(P, Q, C) ==
  \E point \in P :
    \/ MoveTo(point)
    \/ LineTo(point)
    \/ \E control \in Q : QuadraticTo(control, point)
    \/ \E controls \in C : CubicTo(controls[1], controls[2], point)

Others ==
  \/ Close
  \/ Reset
  \/ Reverse
  \/ Reversed
  \/ Bounds

\* The builder operations, reset(), reverse() and the queries, close() and
\* reverse() on non-empty paths only.
Next ==
  \/ Builders(Points, QuadControls, CubicControls)
  \/ Others
  \/ Direction

Spec == Init /\ [][Next]_vars

\* The same with set().
NextSet ==
  \/ Next
  \/ \E given \in SetInputs : Set(given)
  \/ DirectionAbort

SpecSet == Init /\ [][NextSet]_vars

\* The same with close() on an empty path.
NextMisuse ==
  \/ Next
  \/ CloseEmpty

SpecMisuse == Init /\ [][NextMisuse]_vars

\* The builder operations with points at the ends of the range of T;
\* direction() is left out, its products overflow there.
NextExtreme ==
  \/ Builders(ExtremePoints, ExtremeQuadControls, ExtremeCubicControls)
  \/ Others

SpecExtreme == Init /\ [][NextExtreme]_vars

-----------------------------------------------------------------------------
(* Properties.                                                              *)

isSegment(c) == c.kind \in {"LINE", "QUADRATIC", "CUBIC"}

\* A MOVE, then segments, then at most one CLOSE, which is last.
singlePath(cmds) ==
  /\ cmds # <<>>
  /\ front(cmds).kind = "MOVE"
  /\ \A i \in 2..Len(cmds) :
       \/ isSegment(cmds[i])
       \/ i = Len(cmds) /\ cmds[i].kind = "CLOSE"

opposite(d) ==
  CASE d = "CLOCKWISE" -> "COUNTER_CLOCKWISE"
    [] d = "COUNTER_CLOCKWISE" -> "CLOCKWISE"
    [] OTHER -> "UNDEFINED"

\* The cross products of consecutive on-curve points P0, P1, ..., Pn of a
\* single path, summed; the edge from Pn back to P0 is not part of it.
RECURSIVE polylineSum(_, _)
polylineSum(cmds, i) ==
  IF i > Len(cmds) \/ ~isSegment(cmds[i]) THEN 0
  ELSE cross(cmds[i - 1].point, cmds[i].point) + polylineSum(cmds, i + 1)

\* C1: reverse() is an involution: for every non-empty path p whose first
\* command is MOVE, p.reversed().reversed() has p's command sequence.
C1_ReverseIsInvolution ==
  (op = "reversed" /\ front(commands).kind = "MOVE")
    => reversed(ret) = commands

carriedPoints(cmds) ==
  UNION { CASE cmds[i].kind \in {"MOVE", "LINE"} -> {cmds[i].point}
            [] cmds[i].kind = "QUADRATIC" ->
                 {cmds[i].control1, cmds[i].point}
            [] cmds[i].kind = "CUBIC" ->
                 {cmds[i].control1, cmds[i].control2, cmds[i].point}
            [] OTHER -> {} : i \in 1..Len(cmds) }

least(S) == CHOOSE v \in S : \A w \in S : v <= w

greatest(S) == CHOOSE v \in S : \A w \in S : v >= w

\* The rectangle from the per-axis minimum to the per-axis maximum of the
\* carried points; the zero-sized rectangle at the origin when there is none.
referenceBounds(cmds) ==
  LET pts == carriedPoints(cmds)
      xs == {p[1] : p \in pts}
      ys == {p[2] : p \in pts}
  IN  IF pts = {} THEN Rect(Zero, Zero)
      ELSE Rect(<<least(xs), least(ys)>>, <<greatest(xs), greatest(ys)>>)

\* C3: bounds() equals the reference rectangle for every command sequence
\* over the full value range of the scalar type.
C3_BoundsIsReference ==
  op = "bounds" => ret = referenceBounds(commands)

\* The sum of the reference classification: a segment adds
\* cross(prev.point, curr.point), a CLOSE adds cross(prev.point, first.point).
RECURSIVE referenceSum(_, _)
referenceSum(cmds, i) ==
  IF i > Len(cmds) THEN 0
  ELSE LET term == IF cmds[i].kind = "CLOSE"
                   THEN cross(cmds[i - 1].point, front(cmds).point)
                   ELSE cross(cmds[i - 1].point, cmds[i].point)
       IN  term + referenceSum(cmds, i + 1)

referenceDirection(cmds) ==
  IF Len(cmds) < 3 THEN "UNDEFINED"
  ELSE IF referenceSum(cmds, 2) < 0 THEN "COUNTER_CLOCKWISE"
  ELSE "CLOCKWISE"

\* C4: direction() equals the reference classification for every command
\* sequence with a MOVE only at index 0: UNDEFINED below 3 commands, else
\* COUNTER_CLOCKWISE when the reference sum is negative and CLOCKWISE when
\* it is zero or positive.
C4_DirectionIsReference ==
  (op = "direction" /\ \A i \in 2..Len(commands) : commands[i].kind # "MOVE")
    => ret = referenceDirection(commands)

\* The segment-wise reversed path of [MOVE(P0), S1, ..., Sn] and an optional
\* last CLOSE: [MOVE(Pn), Sn', ..., S1'] and the same CLOSE, where Si' has
\* the kind of Si, the end point P(i-1), and for a CUBIC the two controls
\* exchanged.
segmentwiseReversed(cmds) ==
  LET closed == back(cmds).kind = "CLOSE"
      n == IF closed THEN Len(cmds) - 2 ELSE Len(cmds) - 1
      seg(j) ==
        LET src == cmds[n + 2 - j]
        IN  [kind |-> src.kind,
             control1 |-> IF src.kind = "CUBIC" THEN src.control2
                          ELSE src.control1,
             control2 |-> IF src.kind = "CUBIC" THEN src.control1
                          ELSE src.control2,
             point |-> cmds[n + 1 - j].point]
  IN  [i \in 1..Len(cmds) |->
         IF i = 1 THEN [front(cmds) EXCEPT !.point = cmds[n + 1].point]
         ELSE IF i <= n + 1 THEN seg(i - 1)
         ELSE back(cmds)]

\* C5: on a path [MOVE(P0), S1, ..., Sn] with an optional last CLOSE,
\* reverse() leaves the segment-wise reversed path, and every collected
\* point is assigned exactly once.
C5_ReverseIsSegmentwise ==
  [][(op' = "reverse" /\ singlePath(commands))
       => /\ commands' = segmentwiseReversed(commands)
          /\ reverseLeftover(commands) = 0]_vars

C5_Witness ==
  /\ op = "reverse"
  /\ singlePath(commands)
  /\ back(commands).kind = "CLOSE"
  /\ \E i \in 2..Len(commands) :
       /\ commands[i].kind = "CUBIC"
       /\ commands[i].control1 = <<0, 2>>
       /\ commands[i].control2 = <<-1, 0>>

segmentKind(o) ==
  CASE o = "lineTo" -> "LINE"
    [] o = "quadraticTo" -> "QUADRATIC"
    [] o = "cubicTo" -> "CUBIC"
    [] OTHER -> "none"

\* C6: on a non-empty path, lineTo, quadraticTo or cubicTo with an end point
\* equal to the first command's point leaves the path with the new command
\* and then CLOSE as its last command, a close() right after leaves the
\* commands as they are, and so does any close() on a path ending with CLOSE.
C6_AutoCloseAndIdempotentClose ==
  [][LET n == Len(commands)
     IN  /\ (/\ op' \in {"lineTo", "quadraticTo", "cubicTo"}
             /\ n >= 1
             /\ Len(commands') > n
             /\ commands'[n + 1].point = front(commands).point)
              => /\ Len(commands') = n + 2
                 /\ SubSeq(commands', 1, n) = commands
                 /\ commands'[n + 1].kind = segmentKind(op')
                 /\ commands'[n + 2].kind = "CLOSE"
                 /\ close(commands') = commands'
         /\ (op' = "close" /\ n >= 1 /\ back(commands).kind = "CLOSE")
              => commands' = commands]_vars

C6_Witness ==
  /\ op = "cubicTo"
  /\ Len(commands) >= 3
  /\ back(commands).kind = "CLOSE"
  /\ commands[Len(commands) - 1].kind = "CUBIC"
  /\ commands[Len(commands) - 1].point = front(commands).point

\* C7: in every non-empty path reached by moveTo, lineTo, quadraticTo,
\* cubicTo, close, reset and reverse, the first command is MOVE and no later
\* one is, so direction() never reaches its assert(false).
C7_MoveOnlyFirst ==
  commands # <<>>
    => /\ front(commands).kind = "MOVE"
       /\ \A i \in 2..Len(commands) : commands[i].kind # "MOVE"
       /\ ~direction(commands, direction_).asserted

C7_Witness ==
  /\ op = "direction"
  /\ Len(commands) >= 3
  /\ \E i \in 2..Len(commands) : commands[i].kind = "CLOSE"
  /\ ret # "UNDEFINED"
  /\ fault = "none"

\* C8: close() on an empty path fails fast and leaves the commands as they
\* are: no CLOSE is appended.
C8_CloseOnEmptyFailsFast ==
  [][(op' = "close" /\ commands = <<>>)
       => /\ fault' \in {"assert", "crash"}
          /\ commands' = commands]_vars

\* C9: in every path reached by moveTo, lineTo, quadraticTo, cubicTo, close
\* and reverse, no two adjacent commands are both CLOSE.
C9_NoAdjacentClose ==
  \A i \in 1..Len(commands) - 1 :
    ~(commands[i].kind = "CLOSE" /\ commands[i + 1].kind = "CLOSE")

\* C10: a direction() call returns what a path just constructed from the
\* same commands returns: no earlier call or mutation changes the result.
C10_DirectionNeverStale ==
  (op = "direction" /\ fault = "none")
    => ret = direction(commands, "UNDEFINED").result

C10_Witness ==
  /\ op = "direction"
  /\ fault = "none"
  /\ prior = "CLOCKWISE"
  /\ ret = "COUNTER_CLOCKWISE"

====
